---- MODULE Spec2Model ----
(***************************************************************************)
(* feblog: the persistent node tree (nodetree.py) and the escaper          *)
(* (strescape.py).                                                         *)
(*                                                                         *)
(* Objects live in a heap: a sequence of records, an object's identity is  *)
(* its index, None is 0.  Every method is an operator that takes the heap  *)
(* and returns the heap it leaves behind together with its return value,   *)
(* [h |-> heap, r |-> value], so the in-place writes of push_copy and      *)
(* copy (the _copied flags, the replaced child references) are kept.       *)
(* A Python str is the sequence of its characters.                         *)
(***************************************************************************)
EXTENDS Integers, Sequences, FiniteSets, TLC

VARIABLES heap, vals, last, cp, it, nops, esc, tg

vars == <<heap, vals, last, cp, it, nops, esc, tg>>

\* ---------------------------------------------------------------- bounds

\* priorities are drawn from 0..MaxRand (random.randint(0, 2^63-1) in the code)
MaxRand == 1
\* operations the caller performs after the initial document is built
MaxOps == 2
\* length of the strings handed to amp_escape
MaxStrLen == 3
\* attributes of the tags handed to str_self
MaxAttrs == 2

\* ---------------------------------------------------------------- values

None == 0

Rands == 0 .. MaxRand

\* nodetype: 0 = source node, 1 = target node
NodeTypes == {0, 1}

\* Python values that are not nodes, as operands of + : the str 's<' and the
\* int 1.  A value v < 0 stands for PyVals[-v]; PyStr is Python's str() of it.
PyVals == << <<"s", "<">>, <<"1">> >>

isinstance_FeNode(x) == x > 0

PyStr(v) == IF v = None THEN <<"N", "o", "n", "e">> ELSE PyVals[-v]

\* An optional attribute value: None is <<>>, the string s is <<s>>.
NoneVal == <<>>

Some(s) == <<s>>

\* Python truthiness of an attribute value: None and "" are false.
Truthy(v) == v # NoneVal /\ v[1] # <<>>

\* "%s" % v
Fmt(v) == IF v = NoneVal THEN <<"N", "o", "n", "e">> ELSE v[1]

\* ---------------------------------------------------------------- strescape.py

\* mutant: '>' escaped as the HTML entity &gt;
mp_gt(c) ==
    CASE c = "<"  -> <<"&", "l", "t", ";">>
      [] c = ">"  -> <<"&", "g", "t", ";">>
      [] c = "\"" -> <<"&", "q", "u", "o", "t", ";">>
      [] c = " "  -> <<"&", "n", "b", "s", "p", ";">>
      [] c = "&"  -> <<"&", "a", "m", "p", ";">>
      [] OTHER    -> <<c>>

mp(c) ==
    CASE c = "<"  -> <<"&", "l", "t", ";">>
      [] c = ">"  -> <<"&", "r", "t", ";">>
      [] c = "\"" -> <<"&", "q", "u", "o", "t", ";">>
      [] c = " "  -> <<"&", "n", "b", "s", "p", ";">>
      [] c = "&"  -> <<"&", "a", "m", "p", ";">>
      [] OTHER    -> <<c>>

RECURSIVE amp_escape_loop(_, _, _)
amp_escape_loop(s, i, t) ==
    IF i > Len(s) THEN t ELSE amp_escape_loop(s, i + 1, t \o mp(s[i]))

amp_escape(s) == amp_escape_loop(s, 1, <<>>)

\* ---------------------------------------------------------------- FeNode

\* `v` evaluated once and named: With(e, LAMBDA x : body) is body with x = e
With(v, F(_)) == CHOOSE y \in {F(x) : x \in {v}} : TRUE

\* FeNode.__init__ .  A field a class does not have holds its empty value.
\* prop is the content of the attribute dict of a tag and propid the identity
\* of that dict object: the object the dict was made for.
FeNode_init(nodetype, rand) ==
    [cls |-> "node", prev |-> None, next |-> None, copied |-> FALSE, size |-> 1,
     nodetype |-> nodetype, rand |-> rand,
     text |-> <<>>, tagname |-> <<>>, prop |-> <<>>, propid |-> None, inside |-> None]

FeTextNode_init(text, nodetype, rand) ==
    [FeNode_init(nodetype, rand) EXCEPT !.cls = "text", !.text = text]

FeTagNode_init(tagname, prop, inside, nodetype, rand) ==
    [FeNode_init(nodetype, rand) EXCEPT !.cls = "tag", !.tagname = tagname,
                                        !.inside = inside, !.prop = prop]

\* a constructor call: the new object is appended to the heap; a tag gets the
\* dict of the call (the caller's literal, or the {} of the constructor)
New(h, obj) ==
    [h |-> Append(h, [obj EXCEPT !.propid = IF obj.cls = "tag" THEN Len(h) + 1 ELSE None]),
     r |-> Len(h) + 1]

\* FeNode.copy: x = self.__class__(nodetype = self.nodetype), then the fields
FeNode_copy(h, self) ==
    LET blank == [FeNode_init(h[self].nodetype, 0) EXCEPT !.cls = h[self].cls]
        x == [blank EXCEPT !.prev = h[self].prev, !.next = h[self].next,
                           !.rand = h[self].rand, !.size = h[self].size,
                           !.copied = TRUE]
    IN  [h |-> Append([h EXCEPT ![self].copied = TRUE], x), r |-> Len(h) + 1]

\* mutant: cp.text = self.text is lost, the clone keeps the constructor's ""
FeTextNode_copy_no_text(h, self) == FeNode_copy(h, self)

FeTextNode_copy(h, self) ==
    With(FeNode_copy(h, self), LAMBDA cp0 :
        [h |-> [cp0.h EXCEPT ![cp0.r].text = h[self].text], r |-> cp0.r])

\* mutant: cp._inside = self._inside is lost, the clone has no inside
FeTagNode_copy_no_inside(h, self) ==
    With(FeNode_copy(h, self), LAMBDA cp0 :
        [h |-> [cp0.h EXCEPT ![cp0.r].tagname = h[self].tagname,
                             ![cp0.r].prop = h[self].prop,
                             ![cp0.r].propid = cp0.r],
         r |-> cp0.r])

\* mutant: the attributes are not copied into the clone
FeTagNode_copy_no_prop(h, self) ==
    With(FeNode_copy(h, self), LAMBDA cp0 :
        [h |-> [cp0.h EXCEPT ![cp0.r].inside = h[self].inside,
                             ![cp0.r].tagname = h[self].tagname,
                             ![cp0.r].propid = cp0.r],
         r |-> cp0.r])

\* mutant: cp.prop = self.prop, the clone is given the dict of self itself
FeTagNode_copy_shares_prop(h, self) ==
    With(FeNode_copy(h, self), LAMBDA cp0 :
        [h |-> [cp0.h EXCEPT ![cp0.r].inside = h[self].inside,
                             ![cp0.r].tagname = h[self].tagname,
                             ![cp0.r].prop = h[self].prop,
                             ![cp0.r].propid = h[self].propid],
         r |-> cp0.r])

\* FeTagNode.copy: cp.prop = {} is a new dict, filled entry by entry
FeTagNode_copy(h, self) ==
    With(FeNode_copy(h, self), LAMBDA cp0 :
        [h |-> [cp0.h EXCEPT ![cp0.r].inside = h[self].inside,
                             ![cp0.r].tagname = h[self].tagname,
                             ![cp0.r].prop = h[self].prop,
                             ![cp0.r].propid = cp0.r],
         r |-> cp0.r])

\* self.copy(), dispatched on the class of self
copy(h, self) ==
    CASE h[self].cls = "text" -> FeTextNode_copy(h, self)
      [] h[self].cls = "tag"  -> FeTagNode_copy(h, self)
      [] OTHER                -> FeNode_copy(h, self)

\* mutant: the size of _next is not added
pull_no_next(h, self) ==
    LET p == h[self].prev
    IN  [h EXCEPT ![self].size = 1 + (IF p # None THEN h[p].size ELSE 0)]

\* FeNode.pull: the heap after self.size is recomputed
pull(h, self) ==
    LET p == h[self].prev
        n == h[self].next
    IN  [h EXCEPT ![self].size = 1 + (IF p # None THEN h[p].size ELSE 0)
                                   + (IF n # None THEN h[n].size ELSE 0)]

\* mutant: x._next = None is lost, the copy keeps what follows self
isolate_keeps_next(h, self) ==
    With(copy(h, self), LAMBDA x :
        [h |-> pull([x.h EXCEPT ![x.r].prev = None], x.r), r |-> x.r])

\* FeNode.isolate
isolate(h, self) ==
    With(copy(h, self), LAMBDA x :
        [h |-> pull([x.h EXCEPT ![x.r].prev = None, ![x.r].next = None], x.r),
         r |-> x.r])

\* self._prev = self._prev.copy(), when there is a _prev: the heap after it
CopyPrev(h, self) ==
    IF h[self].prev = None THEN h
    ELSE With(copy(h, h[self].prev), LAMBDA c : [c.h EXCEPT ![self].prev = c.r])

CopyNext(h, self) ==
    IF h[self].next = None THEN h
    ELSE With(copy(h, h[self].next), LAMBDA c : [c.h EXCEPT ![self].next = c.r])

CopyInside(h, self) ==
    IF h[self].inside = None THEN h
    ELSE With(copy(h, h[self].inside), LAMBDA c : [c.h EXCEPT ![self].inside = c.r])

\* FeNode.push_copy: the heap after the call
FeNode_push_copy(h, self) ==
    IF ~h[self].copied THEN h
    ELSE With(CopyPrev(h, self), LAMBDA h1 :
         With(CopyNext(h1, self), LAMBDA h2 :
              [h2 EXCEPT ![self].copied = FALSE]))

\* FeTagNode.push_copy
FeTagNode_push_copy(h, self) ==
    IF h[self].copied
    THEN With(CopyInside(h, self), LAMBDA h1 : FeNode_push_copy(h1, self))
    ELSE FeNode_push_copy(h, self)

push_copy(h, self) ==
    IF h[self].cls = "tag" THEN FeTagNode_push_copy(h, self)
    ELSE FeNode_push_copy(h, self)

get_prev(h, self) ==
    With(push_copy(h, self), LAMBDA h1 : [h |-> h1, r |-> h1[self].prev])

get_next(h, self) ==
    With(push_copy(h, self), LAMBDA h1 : [h |-> h1, r |-> h1[self].next])

get_inside(h, self) ==
    With(push_copy(h, self), LAMBDA h1 : [h |-> h1, r |-> h1[self].inside])

\* mutant: _prev is assigned on self itself, no copy is made first
set_prev_in_place(h, self, x) ==
    [h |-> pull([h EXCEPT ![self].prev = x], self), r |-> self]

set_prev(h, self, x) ==
    With(copy(h, self), LAMBDA y :
        [h |-> pull([y.h EXCEPT ![y.r].prev = x], y.r), r |-> y.r])

\* mutant: _next is assigned on self itself, no copy is made first
set_next_in_place(h, self, x) ==
    [h |-> pull([h EXCEPT ![self].next = x], self), r |-> self]

\* mutant: pull is not called, the size is left stale
set_next_no_pull(h, self, x) ==
    With(copy(h, self), LAMBDA y : [h |-> [y.h EXCEPT ![y.r].next = x], r |-> y.r])

set_next(h, self, x) ==
    With(copy(h, self), LAMBDA y :
        [h |-> pull([y.h EXCEPT ![y.r].next = x], y.r), r |-> y.r])

\* ---------------------------------------------------------------- push_back / push_front

RECURSIVE push_back(_, _, _), push_front(_, _, _)

\* mutant: the lower priority root x takes self at its back, not at its front
push_back_swapped(h, self, x) ==
    IF x # None /\ h[x].rand < h[self].rand THEN push_back(h, x, self)
    ELSE IF h[self].next = None THEN set_next(h, self, x)
    ELSE With(get_next(h, self), LAMBDA g :
         With(push_back(g.h, g.r, x), LAMBDA p :
              set_next(p.h, self, p.r)))

\* mutant: x._rand <= self._rand, an equal priority also makes x the root
push_back_le(h, self, x) ==
    IF x # None /\ h[x].rand <= h[self].rand THEN push_front(h, x, self)
    ELSE IF h[self].next = None THEN set_next(h, self, x)
    ELSE With(get_next(h, self), LAMBDA g :
         With(push_back(g.h, g.r, x), LAMBDA p :
              set_next(p.h, self, p.r)))

\* mutant: an absent x is answered with self, no copy is made
push_back_none_is_self(h, self, x) ==
    IF x = None THEN [h |-> h, r |-> self]
    ELSE IF h[x].rand < h[self].rand THEN push_front(h, x, self)
    ELSE IF h[self].next = None THEN set_next(h, self, x)
    ELSE With(get_next(h, self), LAMBDA g :
         With(push_back(g.h, g.r, x), LAMBDA p :
              set_next(p.h, self, p.r)))

push_back(h, self, x) ==
    IF x # None /\ h[x].rand < h[self].rand THEN push_front(h, x, self)
    ELSE IF h[self].next = None THEN set_next(h, self, x)
    ELSE With(get_next(h, self), LAMBDA g :
         With(push_back(g.h, g.r, x), LAMBDA p :
              set_next(p.h, self, p.r)))

push_front(h, self, x) ==
    IF x # None /\ h[x].rand < h[self].rand THEN push_back(h, x, self)
    ELSE IF h[self].prev = None THEN set_prev(h, self, x)
    ELSE With(get_prev(h, self), LAMBDA g :
         With(push_front(g.h, g.r, x), LAMBDA p :
              set_prev(p.h, self, p.r)))

\* mutant: the promoted text node is built without nodetype = self.nodetype
add_default_nodetype(h, self, x, rnd) ==
    IF ~isinstance_FeNode(x)
    THEN With(New(h, FeTextNode_init(PyStr(x), 0, rnd)), LAMBDA t :
              push_back(t.h, self, t.r))
    ELSE push_back(h, self, x)

\* FeNode.__add__ : x is a node, None or a value that is not a node; rnd is
\* what random.randint returns in the constructor of the promoted text node
add(h, self, x, rnd) ==
    IF ~isinstance_FeNode(x)
    THEN With(New(h, FeTextNode_init(PyStr(x), h[self].nodetype, rnd)), LAMBDA t :
              push_back(t.h, self, t.r))
    ELSE push_back(h, self, x)

\* FeNode.__radd__
radd(h, self, x, rnd) ==
    IF ~isinstance_FeNode(x)
    THEN With(New(h, FeTextNode_init(PyStr(x), h[self].nodetype, rnd)), LAMBDA t :
              push_front(t.h, self, t.r))
    ELSE push_front(h, self, x)

\* l + r as Python evaluates it: l.__add__(r) when l is a node, and
\* r.__radd__(l) when only r is one (None and str have no __add__ for a node)
plus(h, l, r, rnd) ==
    IF isinstance_FeNode(l) THEN add(h, l, r, rnd) ELSE radd(h, r, l, rnd)

\* ---------------------------------------------------------------- split_at

RECURSIVE split_at(_, _, _)

\* mutant: the position handed to _next still counts self
split_at_off_by_one(h, self, k) ==
    IF k <= 0 THEN With(copy(h, self), LAMBDA c : [h |-> c.h, r |-> <<None, c.r>>])
    ELSE IF k >= h[self].size
    THEN With(copy(h, self), LAMBDA c : [h |-> c.h, r |-> <<c.r, None>>])
    ELSE IF h[self].prev # None /\ k <= h[h[self].prev].size
    THEN With(get_prev(h, self), LAMBDA g :
         With(split_at(g.h, g.r, k), LAMBDA s :
         With(set_prev(s.h, self, s.r[2]), LAMBDA y :
              [h |-> y.h, r |-> <<s.r[1], y.r>>])))
    ELSE With(IF h[self].prev # None THEN h[h[self].prev].size ELSE 0, LAMBDA lt_size :
         With(get_next(h, self), LAMBDA g :
         With(split_at(g.h, g.r, k - lt_size), LAMBDA s :
         With(set_next(s.h, self, s.r[1]), LAMBDA x :
              [h |-> x.h, r |-> <<x.r, s.r[2]>>]))))

\* returns r = <<x, y>>
split_at(h, self, k) ==
    IF k <= 0 THEN With(copy(h, self), LAMBDA c : [h |-> c.h, r |-> <<None, c.r>>])
    ELSE IF k >= h[self].size
    THEN With(copy(h, self), LAMBDA c : [h |-> c.h, r |-> <<c.r, None>>])
    ELSE IF h[self].prev # None /\ k <= h[h[self].prev].size
    THEN With(get_prev(h, self), LAMBDA g :
         With(split_at(g.h, g.r, k), LAMBDA s :
         With(set_prev(s.h, self, s.r[2]), LAMBDA y :
              [h |-> y.h, r |-> <<s.r[1], y.r>>])))
    ELSE With(IF h[self].prev # None THEN h[h[self].prev].size ELSE 0, LAMBDA lt_size :
         With(get_next(h, self), LAMBDA g :
         With(split_at(g.h, g.r, k - lt_size - 1), LAMBDA s :
         With(set_next(s.h, self, s.r[1]), LAMBDA x :
              [h |-> x.h, r |-> <<x.r, s.r[2]>>]))))

\* ---------------------------------------------------------------- stringification

\* the loop of FeTagNode.str_self over self.prop, from entry i on
RECURSIVE open_tag_loop(_, _, _)
open_tag_loop(prop, i, open_tag) ==
    IF i > Len(prop) THEN open_tag
    ELSE LET key == prop[i].k
             v == prop[i].v
         IN  open_tag_loop(prop, i + 1,
                IF Truthy(v)
                THEN IF key = <<"s", "e", "l", "f">> THEN open_tag
                     ELSE open_tag \o <<" ">> \o key \o <<"=", "\"">>
                                   \o amp_escape(v[1]) \o <<"\"">>
                ELSE open_tag \o <<" ">> \o key)

\* "self" in self.prop
HasKey(prop, key) == \E i \in 1 .. Len(prop) : prop[i].k = key

\* self.prop[key]
Lookup(prop, key) == prop[CHOOSE i \in 1 .. Len(prop) : prop[i].k = key].v

\* the text of the open tag, FeTagNode.str_self lines 300-311
open_tag_of(tagname, prop) ==
    open_tag_loop(prop, 1,
        IF HasKey(prop, <<"s", "e", "l", "f">>)
        THEN tagname \o <<"=">> \o Fmt(Lookup(prop, <<"s", "e", "l", "f">>))
        ELSE tagname)

\* fmt % (open_tag, inside, tagname)
fmt(nodetype, open_tag, ins, tagname) ==
    IF nodetype # 0
    THEN <<"<">> \o open_tag \o <<">">> \o ins \o <<"<", "/">> \o tagname \o <<">">>
    ELSE <<"[">> \o open_tag \o <<"]">> \o ins \o <<"[", "/">> \o tagname \o <<"]">>

RECURSIVE str(_, _), str_self(_, _)

\* str(x or "") with the heap it leaves behind
StrOr(h, x) == IF x # None THEN str(h, x) ELSE [h |-> h, r |-> <<>>]

\* FeTagNode.str_self
FeTagNode_str_self(h, self) ==
    With(open_tag_of(h[self].tagname, h[self].prop), LAMBDA open_tag :
    With(get_inside(h, self), LAMBDA g :
    With(StrOr(g.h, g.r), LAMBDA s :
         [h |-> s.h, r |-> fmt(h[self].nodetype, open_tag, s.r, h[self].tagname)])))

\* str_self of the class of self: FeTextNode, FeTagNode, FeNode
str_self(h, self) ==
    CASE h[self].cls = "text" -> [h |-> h, r |-> amp_escape(h[self].text)]
      [] h[self].cls = "tag"  -> FeTagNode_str_self(h, self)
      [] OTHER                -> [h |-> h, r |-> <<>>]

\* FeNode.__str__
str(h, self) ==
    With(get_prev(h, self), LAMBDA g1 :
    With(StrOr(g1.h, g1.r), LAMBDA s1 :
    With(str_self(s1.h, self), LAMBDA s2 :
    With(get_next(s2.h, self), LAMBDA g3 :
    With(StrOr(g3.h, g3.r), LAMBDA s3 :
         [h |-> s3.h, r |-> s1.r \o s2.r \o s3.r])))))

\* what str(x or "") returns, the heap it leaves behind dropped
StrOf(h, x) == StrOr(h, x).r

\* ---------------------------------------------------------------- __iter__

\* A suspended generator of FeNode.__iter__ is a frame [node, pc]: pc is
\* "start" before the first pull, "prev" inside the first for loop, "mid"
\* suspended at `yield self.isolate()`, "next" inside the second for loop.
\* A generator and the generators its loops are pulling from form a stack st,
\* outermost first.  Resume(h, st, i) is next() on the generator of frame i:
\* out is the item it yields, or None when it is exhausted and popped.
RECURSIVE Resume(_, _, _)

\* `yield self.isolate()` of frame i
YieldSelf(h, st, i) ==
    With(isolate(h, st[i].node), LAMBDA iso :
        [h |-> iso.h,
         st |-> Append(SubSeq(st, 1, i - 1), [st[i] EXCEPT !.pc = "mid"]),
         out |-> iso.r])

\* the generator of frame i returns
Stop(h, st, i) == [h |-> h, st |-> SubSeq(st, 1, i - 1), out |-> None]

\* frame i enters a for loop over child: iter(child), then the first next()
Enter(h, st, i, pc, child) ==
    Resume(h, Append(Append(SubSeq(st, 1, i - 1), [st[i] EXCEPT !.pc = pc]),
                     [node |-> child, pc |-> "start"]), i + 1)

\* what frame i does with the answer r of the generator its loop pulls from
Loop(r, st, i, pc) ==
    IF r.out # None THEN r
    ELSE IF pc = "prev" THEN YieldSelf(r.h, st, i) ELSE Stop(r.h, st, i)

\* mutant: the generator returns after yielding self, the second loop is lost
Resume_no_second_loop(h, st, i) ==
    CASE st[i].pc = "start" ->
            With(get_prev(h, st[i].node), LAMBDA g :
                IF g.r # None
                THEN With(Enter(g.h, st, i, "prev", g.r), LAMBDA r : Loop(r, st, i, "prev"))
                ELSE YieldSelf(g.h, st, i))
      [] st[i].pc = "prev" ->
            With(Resume(h, st, i + 1), LAMBDA r : Loop(r, st, i, "prev"))
      [] OTHER -> Stop(h, st, i)

Resume(h, st, i) ==
    CASE st[i].pc = "start" ->
            With(get_prev(h, st[i].node), LAMBDA g :
                IF g.r # None
                THEN With(Enter(g.h, st, i, "prev", g.r), LAMBDA r : Loop(r, st, i, "prev"))
                ELSE YieldSelf(g.h, st, i))
      [] st[i].pc = "prev" ->
            With(Resume(h, st, i + 1), LAMBDA r : Loop(r, st, i, "prev"))
      [] st[i].pc = "mid" ->
            With(get_next(h, st[i].node), LAMBDA g :
                IF g.r # None
                THEN With(Enter(g.h, st, i, "next", g.r), LAMBDA r : Loop(r, st, i, "next"))
                ELSE Stop(g.h, st, i))
      [] OTHER ->
            With(Resume(h, st, i + 1), LAMBDA r : Loop(r, st, i, "next"))

\* iter(x): a new generator, no code of __iter__ has run yet
iter(x) == << [node |-> x, pc |-> "start"] >>

\* list(x): the items of a traversal pulled until it stops
RECURSIVE drain(_, _, _)
drain(h, st, out) ==
    IF st = <<>> THEN [h |-> h, r |-> out]
    ELSE With(Resume(h, st, 1), LAMBDA r :
             IF r.out = None THEN [h |-> r.h, r |-> out]
             ELSE drain(r.h, r.st, Append(out, r.out)))

list(h, x) == IF x = None THEN [h |-> h, r |-> <<>>] ELSE drain(h, iter(x), <<>>)

\* [str(i) for i in items], from the heap h on
RECURSIVE strs(_, _, _)
strs(h, items, acc) ==
    IF items = <<>> THEN acc
    ELSE With(str(h, Head(items)), LAMBDA s : strs(s.h, Tail(items), Append(acc, s.r)))

\* [str(i) for i in x]
ElemStrs(h, x) == With(list(h, x), LAMBDA l : strs(l.h, l.r, <<>>))

RECURSIVE Flatten(_)
Flatten(ss) == IF ss = <<>> THEN <<>> ELSE Head(ss) \o Flatten(Tail(ss))

SizeOf(h, x) == IF x = None THEN 0 ELSE h[x].size

\* ---------------------------------------------------------------- the caller

\* vals: the node objects the caller holds (constructed or returned so far)
\* last: the last call, with what str and size said of its operands before it,
\*       the objects that existed before the call and were written by it (ch),
\*       those of them that had a child reference replaced (re),
\*       and how many times in a row a value Y was pushed back, from Y on
\*       (r = Y.push_back(Y); r = r.push_back(Y); ... : repY is Y, repN the count)
\* cp:   the last explicit X.copy(): X, the clone, str(X) and X.size before it,
\*       the values derived from the clone, whether one of them was operated on
\* it:   one traversal: its root, its generator stack, the items yielded so far
\* nops: the calls made so far

NoLast ==
    [op |-> "init", a |-> None, b |-> None, k |-> 0, res |-> <<>>,
     strA |-> <<>>, strB |-> <<>>, sizeA |-> 0, sizeB |-> 0, els |-> <<>>,
     ch |-> {}, re |-> {}, repY |-> None, repN |-> 0]

NoCp == [x |-> None, xc |-> None, str |-> <<>>, size |-> 0, der |-> {}, used |-> FALSE]

NoIt == [state |-> "none", root |-> None, st |-> <<>>, out |-> <<>>,
         str0 |-> <<>>, size0 |-> 0]

Attr(key, v) == [k |-> key, v |-> v]

\* {"y": "1", "z": None}, the attributes of test_test1
PropYZ == << Attr(<<"y">>, Some(<<"1">>)), Attr(<<"z">>, NoneVal) >>

\* The document of test_test1, an element with an inside as in test_test2:
\*   x = FeTagNode("x", {"y": "1", "z": None}, inside = FeTextNode("i"))
\*   u = x.push_back(FeTextNode("a")) ; w = u.push_front(FeTextNode("b", 1))
\* with the three priorities rx, ra, rb as random.randint drew them.
Built(rx, ra, rb) ==
    LET h0 == << FeTextNode_init(<<"i">>, 0, 0),
                 [FeTagNode_init(<<"x">>, PropYZ, 1, 0, rx) EXCEPT !.propid = 2],
                 FeTextNode_init(<<"a">>, 0, ra),
                 FeTextNode_init(<<"b">>, 1, rb) >>
    IN  With(push_back(h0, 2, 3), LAMBDA u : push_front(u.h, u.r, 4))

InitTree ==
    \E rx \in Rands, ra \in Rands, rb \in Rands :
        \E w \in {Built(rx, ra, rb)} :
            /\ heap = w.h
            /\ vals = {2, w.r}

Init ==
    /\ InitTree
    /\ last = NoLast
    /\ cp = NoCp
    /\ it = NoIt
    /\ nops = 0
    /\ esc = <<>>
    /\ tg = <<>>

Ids(res) == {res[i] : i \in 1 .. Len(res)} \ {None}

Touches(a, b) == cp.x # None /\ (a \in cp.der \/ b \in cp.der)

\* the child references of object n
Refs(h, n) == <<h[n].prev, h[n].next, h[n].inside>>

\* a.push_back(b) or a + b with a node b
IsPushBack(op, b) == op \in {"push_back", "add"} /\ isinstance_FeNode(b)

\* the call pushes last.repY back onto the result of the last call once more
Repeats(a, b) == last.repN >= 1 /\ b = last.repY /\ a = last.res[1]

\* A call op(a, b, k) that left the heap h1 and returned the objects res.
Call(op, a, b, k, h1, res) ==
    /\ nops' = nops + 1
    /\ heap' = h1
    /\ vals' = vals \cup Ids(res)
    /\ last' = [op |-> op, a |-> a, b |-> b, k |-> k, res |-> res,
                strA |-> StrOf(heap, a),
                strB |-> IF isinstance_FeNode(b) THEN StrOf(heap, b) ELSE <<>>,
                sizeA |-> SizeOf(heap, a),
                sizeB |-> IF isinstance_FeNode(b) THEN SizeOf(heap, b) ELSE 0,
                els |-> IF op = "split_at" THEN ElemStrs(heap, a) ELSE <<>>,
                ch |-> {n \in 1 .. Len(heap) : h1[n] # heap[n]},
                re |-> {n \in 1 .. Len(heap) : Refs(h1, n) # Refs(heap, n)},
                repY |-> IF IsPushBack(op, b) /\ (a = b \/ Repeats(a, b)) THEN b ELSE None,
                repN |-> IF IsPushBack(op, b) /\ a = b THEN 1
                         ELSE IF IsPushBack(op, b) /\ Repeats(a, b) THEN last.repN + 1
                         ELSE 0]
    /\ cp' = IF op = "copy"
             THEN [x |-> a, xc |-> res[1], str |-> StrOf(heap, a),
                   size |-> SizeOf(heap, a), der |-> {res[1]}, used |-> FALSE]
             ELSE IF Touches(a, b)
             THEN [cp EXCEPT !.der = @ \cup Ids(res), !.used = TRUE]
             ELSE cp
    /\ UNCHANGED <<esc, tg>>

Args == vals \cup {None}

\* the caller has calls left
CanCall == nops < MaxOps

NewText ==
    /\ CanCall
    /\ \E rnd \in Rands, nt \in NodeTypes :
        \E n \in {New(heap, FeTextNode_init(<<"c">>, nt, rnd))} :
            Call("FeTextNode", None, None, 0, n.h, <<n.r>>) /\ UNCHANGED it

NewTag ==
    /\ CanCall
    /\ \E rnd \in Rands, nt \in NodeTypes, inside \in Args :
        \E n \in {New(heap, FeTagNode_init(<<"y">>, <<>>, inside, nt, rnd))} :
            Call("FeTagNode", None, inside, 0, n.h, <<n.r>>) /\ UNCHANGED it

Copy ==
    /\ CanCall
    /\ \E a \in vals :
        \E c \in {copy(heap, a)} : Call("copy", a, None, 0, c.h, <<c.r>>) /\ UNCHANGED it

Isolate ==
    /\ CanCall
    /\ \E a \in vals :
        \E c \in {isolate(heap, a)} :
            Call("isolate", a, None, 0, c.h, <<c.r>>) /\ UNCHANGED it

GetPrev ==
    /\ CanCall
    /\ \E a \in vals :
        \E g \in {get_prev(heap, a)} :
            Call("get_prev", a, None, 0, g.h, <<g.r>>) /\ UNCHANGED it

GetNext ==
    /\ CanCall
    /\ \E a \in vals :
        \E g \in {get_next(heap, a)} :
            Call("get_next", a, None, 0, g.h, <<g.r>>) /\ UNCHANGED it

GetInside ==
    /\ CanCall
    /\ \E a \in vals :
        /\ heap[a].cls = "tag"
        /\ \E g \in {get_inside(heap, a)} :
            Call("get_inside", a, None, 0, g.h, <<g.r>>) /\ UNCHANGED it

SetPrev ==
    /\ CanCall
    /\ \E a \in vals, b \in Args :
        \E y \in {set_prev(heap, a, b)} :
            Call("set_prev", a, b, 0, y.h, <<y.r>>) /\ UNCHANGED it

SetNext ==
    /\ CanCall
    /\ \E a \in vals, b \in Args :
        \E y \in {set_next(heap, a, b)} :
            Call("set_next", a, b, 0, y.h, <<y.r>>) /\ UNCHANGED it

PushBack ==
    /\ CanCall
    /\ \E a \in vals, b \in Args :
        \E y \in {push_back(heap, a, b)} :
            Call("push_back", a, b, 0, y.h, <<y.r>>) /\ UNCHANGED it

PushFront ==
    /\ CanCall
    /\ \E a \in vals, b \in Args :
        \E y \in {push_front(heap, a, b)} :
            Call("push_front", a, b, 0, y.h, <<y.r>>) /\ UNCHANGED it

\* the other operand of a + v and v + a: a node, None, or a value that is no node
NonNodes == {None} \cup {-i : i \in 1 .. Len(PyVals)}

Operands == vals \cup NonNodes

\* the priority drawn for the promoted text node, when one is constructed
Draws(v) == IF isinstance_FeNode(v) THEN {0} ELSE Rands

Add ==
    /\ CanCall
    /\ \E a \in vals, v \in Operands :
        \E rnd \in Draws(v) : \E y \in {plus(heap, a, v, rnd)} :
            Call("add", a, v, rnd, y.h, <<y.r>>) /\ UNCHANGED it

RAdd ==
    /\ CanCall
    /\ \E a \in vals, v \in Operands :
        \E rnd \in Draws(v) : \E y \in {plus(heap, v, a, rnd)} :
            Call("radd", a, v, rnd, y.h, <<y.r>>) /\ UNCHANGED it

SplitAt ==
    /\ CanCall
    /\ \E a \in vals :
        \E k \in -1 .. heap[a].size + 1 :
            \E s \in {split_at(heap, a, k)} :
            Call("split_at", a, None, k, s.h, s.r) /\ UNCHANGED it

Str ==
    /\ CanCall
    /\ \E a \in vals :
        \E s \in {str(heap, a)} : Call("str", a, None, 0, s.h, <<>>) /\ UNCHANGED it

\* g = iter(a)
IterStart ==
    /\ CanCall
    /\ \E a \in vals :
        /\ it.state = "none"
        /\ Call("iter", a, None, 0, heap, <<>>)
        /\ it' = [state |-> "live", root |-> a, st |-> iter(a), out |-> <<>>,
                  str0 |-> StrOf(heap, a), size0 |-> heap[a].size]

\* next(g)
IterNext ==
    /\ it.state = "live"
    /\ \E r \in {Resume(heap, it.st, 1)} :
           /\ heap' = r.h
           /\ it' = IF r.out = None
                    THEN [it EXCEPT !.state = "done", !.st = <<>>]
                    ELSE [it EXCEPT !.st = r.st, !.out = Append(@, r.out)]
           /\ vals' = vals \cup ({r.out} \ {None})
           /\ last' = [NoLast EXCEPT !.op = "next", !.a = it.root,
                                     !.res = IF r.out = None THEN <<>> ELSE <<r.out>>]
    /\ UNCHANGED <<cp, nops, esc, tg>>

Next ==
    \/ NewText \/ NewTag \/ Copy \/ Isolate
    \/ GetPrev \/ GetNext \/ GetInside \/ SetPrev \/ SetNext
    \/ PushBack \/ PushFront \/ Add \/ RAdd \/ SplitAt \/ Str
    \/ IterStart \/ IterNext

Spec == Init /\ [][Next]_vars

\* ---------------------------------------------------------------- observations

Min(a, b) == IF a < b THEN a ELSE b

Max(a, b) == IF a > b THEN a ELSE b

Objs == 1 .. Len(heap)

\* the result of the last call (the first one, of a pair)
Res == last.res[1]

\* the content of the tree under x, object identities and _copied flags left out
RECURSIVE Abs(_, _)
Abs(h, x) ==
    IF x = None THEN <<>>
    ELSE << [cls |-> h[x].cls, size |-> h[x].size, rand |-> h[x].rand,
             nodetype |-> h[x].nodetype, text |-> h[x].text,
             tagname |-> h[x].tagname, prop |-> h[x].prop,
             prev |-> Abs(h, h[x].prev), next |-> Abs(h, h[x].next),
             inside |-> Abs(h, h[x].inside)] >>

\* ---------------------------------------------------------------- C1

\* C1: size additivity.  After any sequence of calls every node object
\* has size = (size of _prev, 0 if None) + (size of _next, 0 if None) + 1.
C1_SizeAdditive ==
    \A n \in Objs :
        heap[n].size = SizeOf(heap, heap[n].prev) + SizeOf(heap, heap[n].next) + 1

\* a concatenation returned a root with both children and four elements or more
C1_Witness ==
    /\ last.op \in {"push_back", "push_front"}
    /\ heap[Res].prev # None /\ heap[Res].next # None
    /\ heap[Res].size >= 4

\* ---------------------------------------------------------------- C2

\* C2: copy isolation.  After Xc = X.copy(), whatever is then called on Xc and
\* on the values derived from it, str(X) and X.size are what they were before
\* the copy.
C2_CopyIsolation ==
    cp.x # None => StrOf(heap, cp.x) = cp.str /\ heap[cp.x].size = cp.size

\* a multi-element X was copied and the clone was then concatenated or split
C2_Witness ==
    /\ cp.used /\ cp.size >= 3
    /\ last.op \in {"push_back", "push_front", "split_at"}
    /\ last.a = cp.xc

\* ---------------------------------------------------------------- C3

\* C3: concatenation keeps the order.  For nodes A and B,
\* str(A.push_back(B)) = str(A) + str(B) and str(A.push_front(B)) = str(B) + str(A),
\* equal priorities included.
C3_ConcatOrder ==
    /\ last.op = "push_back" /\ last.b # None
            => StrOf(heap, Res) = last.strA \o last.strB
    /\ last.op = "push_front" /\ last.b # None
            => StrOf(heap, Res) = last.strB \o last.strA

\* two multi-element nodes whose roots have equal priorities were concatenated
C3_Witness ==
    /\ last.op = "push_back" /\ last.b # None
    /\ last.sizeA >= 2 /\ last.sizeB >= 2
    /\ heap[last.a].rand = heap[last.b].rand /\ last.a # last.b

\* ---------------------------------------------------------------- C4

\* C4: split/concatenate inverse.  For 0 <= k <= N.size, with
\* (P, S) = N.split_at(k), str(P + S) = str(N); at k = 0 and at k = N.size one
\* of P and S is None.
C4_SplitConcatInverse ==
    last.op = "split_at" /\ 0 <= last.k /\ last.k <= last.sizeA
        => \A rnd \in Rands :
              LET c == plus(heap, last.res[1], last.res[2], rnd)
              IN  StrOf(c.h, c.r) = last.strA

\* ---------------------------------------------------------------- C5

\* C5: split_at clamps its position and never fails.  For every integer k,
\* with k' = min(max(k, 0), N.size), N.split_at(k) = (P, S) where P holds the
\* first k' elements of N in order (None when k' = 0, else of size k') and S
\* the other N.size - k' (None when k' = N.size), and
\* str(P or "") + str(S or "") = str(N).
C5_SplitClamp ==
    last.op = "split_at" =>
        LET k1 == Min(Max(last.k, 0), last.sizeA)
            P == last.res[1]
            S == last.res[2]
        IN  /\ (P = None) <=> (k1 = 0)
            /\ (S = None) <=> (k1 = last.sizeA)
            /\ SizeOf(heap, P) = k1
            /\ SizeOf(heap, S) = last.sizeA - k1
            /\ ElemStrs(heap, P) = SubSeq(last.els, 1, k1)
            /\ ElemStrs(heap, S) = SubSeq(last.els, k1 + 1, last.sizeA)
            /\ StrOf(heap, P) \o StrOf(heap, S) = last.strA

\* a three-element node was split at a position past its end
C5_Witness ==
    /\ last.op = "split_at" /\ last.sizeA >= 3 /\ last.k > last.sizeA
    /\ last.res[2] = None

\* ---------------------------------------------------------------- C6

\* the items yielded so far, stringified
OutStrs == strs(heap, it.out, <<>>)

\* C6: traversal order.  Iterating N yields N.size items and stops; the
\* str of the items, concatenated in yield order, is str(N) (and a prefix of it
\* while the traversal is under way).
C6_Traversal ==
    /\ it.state = "live" =>
            /\ Len(it.out) <= it.size0
            /\ LET t == Flatten(OutStrs)
               IN  Len(t) <= Len(it.str0) /\ t = SubSeq(it.str0, 1, Len(t))
    /\ it.state = "done" =>
            /\ Len(it.out) = it.size0
            /\ Flatten(OutStrs) = it.str0
            /\ it.str0 = StrOf(heap, it.root)

\* a traversal of a node of three elements or more ran to its end
C6_Witness == it.state = "done" /\ it.size0 >= 3 /\ Len(it.out) >= 3

\* ---------------------------------------------------------------- C7

\* C7: self-concatenation.  Y.push_back(Y) has size 2 * Y.size and str
\* str(Y) + str(Y), and leaves str(Y) and Y.size as they were; r = r + Y
\* repeated n times from r = Y has size (n + 1) * Y.size.
C7_SelfConcat ==
    /\ last.op \in {"push_back", "add"} /\ last.a = last.b =>
            /\ heap[Res].size = 2 * last.sizeA
            /\ StrOf(heap, Res) = last.strA \o last.strA
            /\ StrOf(heap, last.a) = last.strA
            /\ heap[last.a].size = last.sizeA
    /\ last.repN >= 1 => heap[Res].size = (last.repN + 1) * heap[last.repY].size

\* a multi-element Y holding a tag with an inside was pushed onto itself twice
C7_Witness ==
    /\ last.repN = 2
    /\ heap[last.repY].size >= 3
    /\ \E n \in Objs : heap[n].inside # None

\* ---------------------------------------------------------------- C8

\* the reference c of an object became d: the same object, or a clone of it
\* allocated by this step
Clone(c, d) ==
    d = c \/ (c # None /\ d > Len(heap) /\ Abs(heap', d) = Abs(heap, c))

\* C8: the structural operations do not mutate their operands.  In every
\* step every object that existed before it keeps its document string, size,
\* priority, kind, text / tag name and attributes (and those of everything
\* under it); the only writes to it are its _copied flag and a child
\* reference replaced by a clone of that same child.
C8_Frame ==
    [][\A n \in Objs :
          /\ Abs(heap', n) = Abs(heap, n)
          /\ StrOf(heap', n) = StrOf(heap, n)
          /\ Clone(heap[n].prev, heap'[n].prev)
          /\ Clone(heap[n].next, heap'[n].next)
          /\ Clone(heap[n].inside, heap'[n].inside)]_vars

\* A.push_back(B) replaced child references of its receiver A by clones
C8_Witness ==
    /\ last.op = "push_back" /\ last.b # None
    /\ last.a \in last.re
    /\ last.sizeA >= 3

\* ---------------------------------------------------------------- the escaper alone

\* the characters of the inputs: the five the table maps, and two it does not
EscChars == {"<", ">", "\"", " ", "&", "A", ";"}

RECURSIVE StringsUpTo(_)
StringsUpTo(n) ==
    IF n = 0 THEN {<<>>}
    ELSE LET shorter == StringsUpTo(n - 1)
         IN  shorter \cup {Append(s, c) : s \in shorter, c \in EscChars}

\* '<A & "B">', the input of the spec's scenario
Scenario == <<"<", "A", " ", "&", " ", "\"", "B", "\"", ">">>

EscInputs == StringsUpTo(MaxStrLen) \cup {Scenario}

\* esc: the input s of a call of amp_escape and, once it returned, its result t
InitEsc ==
    /\ esc \in {[s |-> s, t |-> <<>>, done |-> FALSE] : s \in EscInputs}
    /\ heap = <<>> /\ vals = {} /\ last = NoLast /\ cp = NoCp /\ it = NoIt
    /\ nops = 0 /\ tg = <<>>

Escape ==
    /\ ~esc.done
    /\ esc' = [esc EXCEPT !.t = amp_escape(esc.s), !.done = TRUE]
    /\ UNCHANGED <<heap, vals, last, cp, it, nops, tg>>

SpecEsc == InitEsc /\ [][Escape]_vars

\* the image of one character, as the claim lists them
C10_Image(c) ==
    IF c = "<" THEN <<"&", "l", "t", ";">>
    ELSE IF c = ">" THEN <<"&", "r", "t", ";">>
    ELSE IF c = "\"" THEN <<"&", "q", "u", "o", "t", ";">>
    ELSE IF c = " " THEN <<"&", "n", "b", "s", "p", ";">>
    ELSE IF c = "&" THEN <<"&", "a", "m", "p", ";">>
    ELSE <<c>>

\* '&lt;A&nbsp;&amp;&nbsp;&quot;B&quot;&rt;'
C10_ScenarioOut ==
    <<"&", "l", "t", ";", "A", "&", "n", "b", "s", "p", ";", "&", "a", "m", "p", ";",
      "&", "n", "b", "s", "p", ";", "&", "q", "u", "o", "t", ";", "B",
      "&", "q", "u", "o", "t", ";", "&", "r", "t", ";">>

\* C10: amp_escape(s) is the concatenation, in order, of the images of the
\* characters of s (one pass: the & of an emitted entity is not escaped
\* again), and '<A & "B">' gives '&lt;A&nbsp;&amp;&nbsp;&quot;B&quot;&rt;'.
C10_Escaper ==
    esc.done =>
        /\ esc.t = Flatten([i \in 1 .. Len(esc.s) |-> C10_Image(esc.s[i])])
        /\ esc.s = Scenario => esc.t = C10_ScenarioOut

\* the scenario's input was escaped
C10_Witness == esc.done /\ esc.s = Scenario /\ Len(esc.t) = 39

\* ---------------------------------------------------------------- a tag alone

\* attribute keys and values of the inputs
TagKeys == {<<"y">>, <<"s", "e", "l", "f">>}

TagValues == {NoneVal, Some(<<>>), Some(<<"1">>), Some(<<"a", " ", "<">>)}

\* the attribute maps of at most n entries, keys unique, in insertion order
RECURSIVE PropsUpTo(_)
PropsUpTo(n) ==
    IF n = 0 THEN {<<>>}
    ELSE LET shorter == PropsUpTo(n - 1)
         IN  shorter \cup {Append(p, Attr(key, v)) :
                             p \in {q \in shorter : Len(q) = n - 1},
                             key \in TagKeys, v \in TagValues}

UniqueKeys(p) == \A i, j \in 1 .. Len(p) : p[i].k = p[j].k => i = j

\* tg: a tag FeTagNode("x", prop, inside, nodetype) (object `node`) and, once
\* str_self returned, its result out.  The inside is absent or the two
\* elements 'i' and 'j<'.
InitTag ==
    /\ \E prop \in {p \in PropsUpTo(MaxAttrs) : UniqueKeys(p)},
          nt \in NodeTypes, withInside \in BOOLEAN :
          \E ins \in {push_back(<< FeTextNode_init(<<"i">>, nt, 0),
                                  FeTextNode_init(<<"j", "<">>, nt, 1) >>, 1, 2)} :
              \E t \in {New(ins.h, FeTagNode_init(<<"x">>, prop,
                                    IF withInside THEN ins.r ELSE None, nt, 0))} :
                  /\ heap = t.h
                  /\ tg = [node |-> t.r, out |-> <<>>, done |-> FALSE]
    /\ vals = {} /\ last = NoLast /\ cp = NoCp /\ it = NoIt /\ nops = 0 /\ esc = <<>>

TagStrSelf ==
    /\ ~tg.done
    /\ \E s \in {str_self(heap, tg.node)} :
          /\ heap' = s.h
          /\ tg' = [tg EXCEPT !.out = s.r, !.done = TRUE]
    /\ UNCHANGED <<vals, last, cp, it, nops, esc>>

SpecTag == InitTag /\ [][TagStrSelf]_vars

\* the open tag of the claim: the tag name, then for each attribute in
\* insertion order ' key="' + amp_escape(value) + '"' when the value is present
\* and ' key' when it is None
RECURSIVE C9_OpenTag(_, _, _)
C9_OpenTag(prop, i, acc) ==
    IF i > Len(prop) THEN acc
    ELSE C9_OpenTag(prop, i + 1,
            IF prop[i].v = NoneVal THEN acc \o <<" ">> \o prop[i].k
            ELSE acc \o <<" ">> \o prop[i].k \o <<"=", "\"">>
                     \o amp_escape(prop[i].v[1]) \o <<"\"">>)

\* C9: the tag grammar.  str_self of a tag is '<open>INSIDE</tagname>' for
\* a target node and '[open]INSIDE[/tagname]' for a source node, for every
\* attribute map (the key "self" and the value "" included), with INSIDE the
\* str of the inside, or '' when there is none.
C9_TagGrammar ==
    tg.done =>
        LET t == heap[tg.node]
            open == C9_OpenTag(t.prop, 1, t.tagname)
            ins == StrOf(heap, t.inside)
        IN  tg.out = IF t.nodetype = 1
                     THEN <<"<">> \o open \o <<">">> \o ins
                              \o <<"<", "/">> \o t.tagname \o <<">">>
                     ELSE <<"[">> \o open \o <<"]">> \o ins
                              \o <<"[", "/">> \o t.tagname \o <<"]">>

\* ---------------------------------------------------------------- a tag and its inside

\* The document of test_test2:
\*   x = FeTagNode("x", {"y": "1", "z": None}, nodetype = 1)
\*   xstr = x.push_back(FeTextNode("a")) ; t = FeTagNode("t", inside = xstr)
\* with the priorities rx, ra, rt as random.randint drew them.
BuiltInside(rx, ra, rt) ==
    LET h0 == << [FeTagNode_init(<<"x">>, PropYZ, None, 1, rx) EXCEPT !.propid = 1],
                 FeTextNode_init(<<"a">>, 0, ra) >>
    IN  With(push_back(h0, 1, 2), LAMBDA xstr :
             [h |-> New(xstr.h, FeTagNode_init(<<"t">>, <<>>, xstr.r, 0, rt)).h,
              t |-> Len(xstr.h) + 1, xstr |-> xstr.r])

\* tg: the tag T (object `node`), the value I it was built with, and what str
\* and size said of them when T was constructed.  The caller holds both.
InitInside ==
    /\ \E rx \in Rands, ra \in Rands, rt \in Rands :
          \E d \in {BuiltInside(rx, ra, rt)} :
              /\ heap = d.h
              /\ vals = {d.t, d.xstr}
              /\ tg = [node |-> d.t, ins |-> d.xstr,
                       strT |-> StrOf(d.h, d.t), strI |-> StrOf(d.h, d.xstr),
                       sizeI |-> d.h[d.xstr].size]
    /\ last = NoLast /\ cp = NoCp /\ it = NoIt /\ nops = 0 /\ esc = <<>>

SpecInside == InitInside /\ [][Next]_vars

\* ---------------------------------------------------------------- C11

\* the elements of the chain of x: the objects under x along _prev and _next,
\* no inside followed
RECURSIVE Siblings(_, _)
Siblings(h, x) ==
    IF x = None THEN 0 ELSE 1 + Siblings(h, h[x].prev) + Siblings(h, h[x].next)

\* C11: the two sequence dimensions are independent.  The size of a chain
\* counts its top-level siblings and never the elements of an inside; for a
\* tag T built with inside = I, whatever is called on T, on I and on the values
\* derived from them, str(I) and the str of the inside of T (and of every
\* clone of T) stay what they were; and Y.push_back(Y) for Y = T.push_back(I)
\* is the string twice, of size 2 * (1 + I.size).
C11_InsideIndependent ==
    /\ \A n \in Objs : heap[n].size = Siblings(heap, n)
    /\ heap[tg.node].size = 1
    /\ StrOf(heap, tg.ins) = tg.strI /\ heap[tg.ins].size = tg.sizeI
    /\ \A n \in Objs : heap[n].tagname = <<"t">> => StrOf(heap, heap[n].inside) = tg.strI
    /\ last.op \in {"push_back", "add"} /\ last.a = last.b
            /\ last.strA = tg.strT \o tg.strI
         => /\ StrOf(heap, Res) = tg.strT \o tg.strI \o tg.strT \o tg.strI
            /\ heap[Res].size = 2 * (1 + tg.sizeI)

\* I was pushed back onto T and the result onto itself
C11_Witness ==
    /\ last.op = "push_back" /\ last.a = last.b
    /\ last.strA = tg.strT \o tg.strI
    /\ heap[Res].size = 2 * (1 + tg.sizeI)
    /\ \E n \in Objs : n # tg.node /\ heap[n].tagname = <<"t">>

\* ---------------------------------------------------------------- C12

\* C12: concatenating an absent operand is a no-op that returns a copy.
\* A.push_back(None) and A.push_front(None) return an object other than A with
\* the str and the size of A, whatever the shape of A.
C12_PushNone ==
    last.op \in {"push_back", "push_front"} /\ last.b = None =>
        /\ Res # None /\ Res # last.a
        /\ StrOf(heap, Res) = last.strA
        /\ heap[Res].size = last.sizeA
        /\ StrOf(heap, last.a) = last.strA /\ heap[last.a].size = last.sizeA

\* None was pushed back onto a node of three elements that has a _next subtree
C12_Witness ==
    /\ last.op = "push_back" /\ last.b = None
    /\ heap[last.a].next # None /\ last.sizeA >= 3

\* ---------------------------------------------------------------- C13

\* the leaf the call promoted v to: a text node with text str(v), of the kind
\* of A, with the priority the constructor drew
Leaf == FeTextNode_init(PyStr(last.b), heap[last.a].nodetype, last.k)

\* item i of the elements of x (0: the last one) is a single text element with
\* text str(v), of the kind of A
IsLeafAt(x, i) ==
    LET l == list(heap, x)
        e == l.h[l.r[IF i = 0 THEN Len(l.r) ELSE i]]
    IN  /\ e.cls = "text" /\ e.text = PyStr(last.b)
        /\ e.nodetype = heap[last.a].nodetype /\ e.size = 1

\* C13: implicit promotion.  For a node A and a value v that is no node,
\* A + v is A.push_back(L) and v + A is A.push_front(L) for a new text leaf
\* L with text str(v) and the kind of A: str(A + v) = str(A) + amp_escape(str(v)),
\* str(v + A) = amp_escape(str(v)) + str(A), and the size is A.size + 1.
C13_Promotion ==
    /\ last.op = "add" /\ ~isinstance_FeNode(last.b) =>
          /\ StrOf(heap, Res) = last.strA \o amp_escape(PyStr(last.b))
          /\ heap[Res].size = last.sizeA + 1
          /\ IsLeafAt(Res, 0)
          /\ LET t == New(heap, Leaf)
                 p == push_back(t.h, last.a, t.r)
             IN  Abs(p.h, p.r) = Abs(heap, Res)
    /\ last.op = "radd" /\ ~isinstance_FeNode(last.b) =>
          /\ StrOf(heap, Res) = amp_escape(PyStr(last.b)) \o last.strA
          /\ heap[Res].size = last.sizeA + 1
          /\ IsLeafAt(Res, 1)
          /\ LET t == New(heap, Leaf)
                 p == push_front(t.h, last.a, t.r)
             IN  Abs(p.h, p.r) = Abs(heap, Res)

\* the str 's<' was added to a target node of three elements
C13_Witness ==
    /\ last.op = "add" /\ last.b = -1
    /\ heap[last.a].nodetype = 1 /\ last.sizeA >= 3
    /\ StrOf(heap, Res) = last.strA \o <<"s", "&", "l", "t", ";">>

\* ---------------------------------------------------------------- C14

\* the objects reachable from x along _prev, _next and _inside, x included
RECURSIVE Reach(_, _)
Reach(h, x) ==
    IF x = None THEN {}
    ELSE {x} \cup Reach(h, h[x].prev) \cup Reach(h, h[x].next) \cup Reach(h, h[x].inside)

\* the objects reachable from two distinct values the caller holds
SharedObjs ==
    UNION {IF r1 = r2 THEN {} ELSE Reach(heap, r1) \cap Reach(heap, r2) :
             r1 \in vals, r2 \in vals}

\* C14 as stated: copy-on-write discipline.  No call reassigns the _prev,
\* _next or _inside reference of an object that is reachable from two distinct
\* values held by the caller.
C14_NoReassignShared ==
    [][\A n \in SharedObjs : Refs(heap', n) = Refs(heap, n)]_vars

\* C14, amended: a call changes the _prev, _next or _inside reference of an
\* object reachable from two distinct held values only by replacing the child
\* with a clone of that child allocated by the call (push_copy), which leaves
\* the content and the str under every held value as they were; a
\* reference to another child is only ever assigned on a new clone.
C14_SharedOnlyRecloned ==
    [][/\ \A n \in SharedObjs :
             /\ Clone(heap[n].prev, heap'[n].prev)
             /\ Clone(heap[n].next, heap'[n].next)
             /\ Clone(heap[n].inside, heap'[n].inside)
       /\ \A r \in vals :
             /\ Abs(heap', r) = Abs(heap, r)
             /\ StrOf(heap', r) = StrOf(heap, r)]_vars

\* get_next was called on a held value that another held value reaches, and
\* replaced child references of it by clones
C14_Witness ==
    /\ last.op = "get_next" /\ last.a \in last.re
    /\ \E r \in vals \ ({last.a} \cup Ids(last.res)) : last.a \in Reach(heap, r)

\* ---------------------------------------------------------------- C15

\* C15: exclusive ownership after access.  Whenever N.get_prev(),
\* N.get_next() or N.get_inside() returns a child C that is not None, no
\* object other than N holds C in its _prev, _next or _inside, whether N was
\* copy-pending before the call or not.
C15_ExclusiveChild ==
    last.op \in {"get_prev", "get_next", "get_inside"} /\ Res # None =>
        \A n \in Objs \ {last.a} :
            Res \notin {heap[n].prev, heap[n].next, heap[n].inside}

\* ---------------------------------------------------------------- C16

\* the elements of the chain of x in document order, each with the priority,
\* the kind and the content it was constructed with
RECURSIVE Elems(_, _)
Elems(h, x) ==
    IF x = None THEN <<>>
    ELSE Elems(h, h[x].prev)
         \o << [rand |-> h[x].rand, nodetype |-> h[x].nodetype, cls |-> h[x].cls,
                text |-> h[x].text, tagname |-> h[x].tagname, prop |-> h[x].prop] >>
         \o Elems(h, h[x].next)

\* the items yielded so far, as elements
OutElems == [i \in 1 .. Len(it.out) |-> Elems(heap, it.out[i])[1]]

\* C16: the effect of copy().  X.copy() returns a new object with the
\* priority, kind, size, text / tag name of X, an equal attribute map that is
\* another dict, and the very child objects of X in _prev, _next and _inside;
\* X and the clone are both copy-pending and no field of any other object has
\* changed.  Across copy, push_back, push_front, split_at and iteration every
\* element keeps the priority and the kind it was constructed with.
C16_CopyEffect ==
    /\ last.op = "copy" =>
          LET x == heap[last.a]
              c == heap[Res]
          IN  /\ Res = Len(heap) /\ Res # last.a
              /\ c.cls = x.cls /\ c.rand = x.rand /\ c.nodetype = x.nodetype
              /\ c.size = x.size /\ c.text = x.text /\ c.tagname = x.tagname
              /\ c.prop = x.prop
              /\ x.cls = "tag" => c.propid # x.propid /\ c.propid # None
              /\ Refs(heap, Res) = Refs(heap, last.a)
              /\ x.copied /\ c.copied
              /\ last.re = {} /\ last.ch \subseteq {last.a}
              /\ Elems(heap, Res) = Elems(heap, last.a)
    /\ last.op = "push_back" /\ last.b # None =>
          Elems(heap, Res) = Elems(heap, last.a) \o Elems(heap, last.b)
    /\ last.op = "push_front" /\ last.b # None =>
          Elems(heap, Res) = Elems(heap, last.b) \o Elems(heap, last.a)
    /\ last.op = "split_at" =>
          Elems(heap, last.res[1]) \o Elems(heap, last.res[2]) = Elems(heap, last.a)
    /\ it.state # "none" =>
          OutElems = SubSeq(Elems(heap, it.root), 1, Len(it.out))

\* a tag with attributes, an inside and siblings was copied
C16_Witness ==
    /\ last.op = "copy"
    /\ heap[last.a].cls = "tag" /\ heap[last.a].prop # <<>>
    /\ heap[last.a].inside # None /\ heap[last.a].size >= 3
    /\ heap[Res].propid = Res

\* ---------------------------------------------------------------- C17

\* the objects of the chain of x in document order
RECURSIVE Walk(_, _)
Walk(h, x) ==
    IF x = None THEN <<>> ELSE Walk(h, h[x].prev) \o <<x>> \o Walk(h, h[x].next)

\* item i of the traversal is element i of its root, alone
Isolated(i) ==
    LET item == heap[it.out[i]]
        elem == heap[Walk(heap, it.root)[i]]
    IN  /\ item.prev = None /\ item.next = None /\ item.size = 1
        /\ item.cls = elem.cls /\ item.text = elem.text
        /\ item.tagname = elem.tagname /\ item.prop = elem.prop
        /\ StrOf(heap, item.inside) = StrOf(heap, elem.inside)

\* C17: iteration yields isolated items and leaves its source intact.
\* Every item has no _prev, no _next and size 1 (a tag item with its inside
\* and attributes); str(N) and N.size are the same before, during and after
\* the traversal; and at every point of it, abandoned there or not, a new
\* traversal of N starts at the first element and yields all N.size items in
\* order.
C17_IterationIsolated ==
    it.state # "none" =>
        /\ \A i \in 1 .. Len(it.out) : Isolated(i)
        /\ StrOf(heap, it.root) = it.str0
        /\ heap[it.root].size = it.size0
        /\ LET fresh == ElemStrs(heap, it.root)
           IN  /\ Len(fresh) = it.size0
               /\ Flatten(fresh) = it.str0
               /\ OutStrs = SubSeq(fresh, 1, Len(it.out))

\* a traversal of three elements is suspended after two pulls, one item a tag
\* with an inside
C17_Witness ==
    /\ it.state = "live" /\ it.size0 >= 3 /\ Len(it.out) = 2
    /\ \E i \in 1 .. 2 : heap[it.out[i]].cls = "tag" /\ heap[it.out[i]].inside # None

\* ---------------------------------------------------------------- C18

\* every object of the chain of x has a priority that is at most the priority
\* of its _prev and of its _next
HeapOrdered(h, x) ==
    \A i \in 1 .. Len(Walk(h, x)) :
        LET n == h[Walk(h, x)[i]]
        IN  /\ n.prev # None => n.rand <= h[n.prev].rand
            /\ n.next # None => n.rand <= h[n.next].rand

\* the element at the root of x
RootElem(h, x) ==
    [rand |-> h[x].rand, nodetype |-> h[x].nodetype, cls |-> h[x].cls,
     text |-> h[x].text, tagname |-> h[x].tagname, prop |-> h[x].prop]

\* C18: treap heap order.  For heap-ordered A and B the root of
\* A.push_back(B) and of A.push_front(B) carries the lower of the two root
\* priorities and is the root of A when they are equal (the root of B only
\* when B's is lower), and the result is heap-ordered; split_at and copy
\* of a heap-ordered node return heap-ordered nodes, and a single element is
\* heap-ordered: so is every tree built by them from single elements.
C18_HeapOrder ==
    /\ \A n \in Objs : heap[n].size = 1 => HeapOrdered(heap, n)
    /\ last.op \in {"push_back", "push_front"} /\ last.b # None
            /\ HeapOrdered(heap, last.a) /\ HeapOrdered(heap, last.b) =>
          /\ heap[Res].rand = Min(heap[last.a].rand, heap[last.b].rand)
          /\ HeapOrdered(heap, Res)
          /\ RootElem(heap, Res) = IF heap[last.b].rand < heap[last.a].rand
                                   THEN RootElem(heap, last.b)
                                   ELSE RootElem(heap, last.a)
          /\ IF heap[last.b].rand < heap[last.a].rand
             THEN IF last.op = "push_back"
                  THEN Abs(heap, heap[Res].next) = Abs(heap, heap[last.b].next)
                  ELSE Abs(heap, heap[Res].prev) = Abs(heap, heap[last.b].prev)
             ELSE IF last.op = "push_back"
                  THEN Abs(heap, heap[Res].prev) = Abs(heap, heap[last.a].prev)
                  ELSE Abs(heap, heap[Res].next) = Abs(heap, heap[last.a].next)
    /\ last.op = "split_at" /\ HeapOrdered(heap, last.a) =>
          HeapOrdered(heap, last.res[1]) /\ HeapOrdered(heap, last.res[2])
    /\ last.op = "copy" /\ HeapOrdered(heap, last.a) => HeapOrdered(heap, Res)

\* a node of lower root priority was pushed back onto a heap-ordered node of
\* three elements, and became the root
C18_Witness ==
    /\ last.op = "push_back" /\ last.b # None
    /\ HeapOrdered(heap, last.a) /\ HeapOrdered(heap, last.b)
    /\ heap[last.b].rand < heap[last.a].rand /\ last.sizeA >= 3
    /\ heap[Res].prev # None

\* ---------------------------------------------------------------- a suspended traversal

\* n pulls of the generator stack st (fewer when it stops): the heap after them
RECURSIVE Pull(_, _, _)
Pull(h, st, n) ==
    IF n = 0 \/ st = <<>> THEN h
    ELSE With(Resume(h, st, 1), LAMBDA r :
             IF r.out = None THEN r.h ELSE Pull(r.h, r.st, n - 1))

\* The document of test_test1 with g = iter(w) just made, no item pulled yet.
\* it.exp is what [str(i) for i in w] gives at that moment.
\* The caller holds w alone.
InitIter ==
    /\ \E rx \in Rands, ra \in Rands, rb \in Rands :
          \E w \in {Built(rx, ra, rb)} :
              /\ heap = w.h
              /\ vals = {w.r}
              /\ it = [state |-> "live", root |-> w.r, st |-> iter(w.r), out |-> <<>>,
                       str0 |-> StrOf(w.h, w.r), size0 |-> w.h[w.r].size,
                       exp |-> ElemStrs(w.h, w.r)]
    /\ last = NoLast /\ cp = NoCp /\ nops = 0 /\ esc = <<>> /\ tg = <<>>

\* g2 = iter(a), then k pulls of g2; its items are dropped
Second ==
    /\ CanCall
    /\ \E a \in vals :
        \E k \in 1 .. heap[a].size :
            \E h1 \in {Pull(heap, iter(a), k)} :
                Call("second", a, None, k, h1, <<>>) /\ UNCHANGED it

\* next(g), the item kept aside: the caller calls nothing on it
PullNext ==
    /\ it.state = "live"
    /\ \E r \in {Resume(heap, it.st, 1)} :
           /\ heap' = r.h
           /\ it' = IF r.out = None
                    THEN [it EXCEPT !.state = "done", !.st = <<>>]
                    ELSE [it EXCEPT !.st = r.st, !.out = Append(@, r.out)]
           /\ last' = [NoLast EXCEPT !.op = "next", !.a = it.root,
                                     !.res = IF r.out = None THEN <<>> ELSE <<r.out>>]
    /\ UNCHANGED <<vals, cp, nops, esc, tg>>

\* between two pulls of g the caller edits what it holds, reads children, or
\* runs a second traversal
NextIter ==
    \/ Copy \/ SetPrev \/ SetNext \/ PushBack \/ PushFront \/ SplitAt
    \/ GetPrev \/ GetNext \/ Second
    \/ PullNext

SpecIter == InitIter /\ [][NextIter]_vars

\* ---------------------------------------------------------------- C19

====
